---- MODULE Spec2Model ----
(***************************************************************************)
(* The news ingestion commands fetch_provider_articles and                 *)
(* fetch_provider_sources: the orchestrator (handle), the category worker  *)
(* (run_category_fetch), the retry runner (run_with_retries), the fetch    *)
(* cycle (process_fetch_cycle) with its enrichment and persistence steps,  *)
(* and the shared shutdown flag.                                           *)
(***************************************************************************)
EXTENDS Integers, Sequences, FiniteSets, TLC

VARIABLES
    cfg,                 \* command line, environment and provider of this run (never changes)
    feed,                \* what the provider may answer to a fetch (never changes)
    shutdown_requested,  \* threading.Event: the shutdown flag
    pc,                  \* position of every thread of control
    attempt,             \* run_with_retries: the loop variable
    success,             \* the caller's copy of run_with_retries' result
    batch,               \* process_fetch_cycle: the records the provider returned
    idx,                 \* process_fetch_cycle: position of the record loop
    prepared,            \* process_fetch_cycle: prepared_articles / prepared
    existing,            \* process_fetch_cycle: existing_urls / existing_names
    report,              \* process_fetch_cycle: the counts the cycle writes to stdout
    Article,             \* table news.Article, in insertion order
    Source,              \* table news.Source, in insertion order
    h_i,                 \* handle: position in the list of categories / threads
    ncalls,              \* history: process_fetch_cycle calls of the lane's current run
    nfails,              \* history: those of them that raised
    interrupted,         \* history: what the last interruptible_sleep returned
    observed,            \* history: the thread has read the flag as set
    runs,                \* history: the cycles that got an answer from the provider
    arg,                 \* a call of a function of the provider package: its argument
    result,              \* that call's result, once it has returned
    model,               \* model_loader._model
    model_lock,          \* model_loader._model_lock: the thread that holds it
    loads,               \* history: the fasttext.load_model calls and how they ended
    options,             \* options['category'] of the dict each worker thread was given
    fetched,             \* history: the category of every thread's last provider call
    caller               \* get_model: position and last outcome of every calling thread

vars == <<cfg, feed, shutdown_requested, pc, attempt, success, batch, idx, prepared,
          existing, report, Article, Source, h_i, ncalls, nfails, interrupted,
          observed, runs, arg, result, model, model_lock, loads, caller,
          options, fetched>>

-----------------------------------------------------------------------------
(* Program constants *)

MAX_RETRIES == 3

\* thread.join(timeout=5), in seconds
JOIN_TIMEOUT == 5

\* provider.categories; two of the provider's seven categories are modelled
CategoryList == <<"business", "sports">>

Categories == {CategoryList[i] : i \in 1..Len(CategoryList)}

Main == "main"

Procs == Categories \cup {Main}

None == "None"

-----------------------------------------------------------------------------
(* Bounds *)

\* longest batch the provider returns
MaxBatch == 2

\* fetch cycles counted by the history variable runs
MaxRuns == 2

\* longest content string, in tokens
MaxContent == 5

\* most fasttext.load_model calls that fail
MaxLoadFails == 2

-----------------------------------------------------------------------------
(* Data *)

Urls == {"u1", "u2"}

\* The combined text "title description content" of an article, abstracted to
\* what the collaborators answer for it:
\*   ta, tb  keywords are found; the language of ta is detected, that of tb is not
\*   tn      the extractor finds no keyword
\*   tx      the extractor raises KeywordExtractionError
Texts == {"ta", "tb", "tn", "tx"}

RawArticles == [url : Urls, text : Texts]

SourceNames == {"n1", "n2"}

SourceUrls == {"x", "y"}

RawSources == [name : SourceNames, url : SourceUrls, category : Categories,
               language : {"en"}, country : {"us"}]

\* the answer that stands for a raised requests.exceptions.RequestException
ProviderError == <<[error |-> "RequestException"]>>

RECURSIVE SeqsUpTo(_, _)
SeqsUpTo(S, n) ==
    IF n = 0 THEN {<<>>}
    ELSE LET shorter == SeqsUpTo(S, n - 1)
         IN shorter \cup {Append(s, x) : s \in {t \in shorter : Len(t) = n - 1}, x \in S}

ArticleBatches == SeqsUpTo(RawArticles, MaxBatch)

\* answers with an article whose "url" is the empty string. The commands run
\* with Django installed, where normalize_articles lets every URL that is not
\* None through (helpers_url_validator), so that the article reaches the cycle.
EmptyUrlBatches ==
    {<<[url |-> "", text |-> "ta"]>>,
     <<[url |-> "u1", text |-> "ta"], [url |-> "", text |-> "tb"]>>}

SourceBatches == SeqsUpTo(RawSources, MaxBatch)

\* KeywordExtractorService.extract_keywords: [raised, keywords]
extract_keywords(text) ==
    CASE text = "tx" -> [raised |-> TRUE, keywords |-> <<>>]
      [] text = "tn" -> [raised |-> FALSE, keywords |-> <<>>]
      [] OTHER -> [raised |-> FALSE, keywords |-> <<"k_" \o text>>]

\* detect_language: always a pair (language, confidence); the language is None
\* below the confidence threshold or when detection fails
detect_language(text) ==
    IF text = "ta" THEN <<"fr", "high">> ELSE <<None, "low">>

\* Command._prepare_article_keywords_and_language: <<keywords, language>>
prepare_article_keywords_and_language(text) ==
    LET kw == extract_keywords(text)
    IN IF kw.raised \/ kw.keywords = <<>>
       THEN <<<<>>, "en">>
       ELSE LET lang_result == detect_language(text)
            IN \* a non-empty tuple is truthy, so the pair is always unpacked
               <<kw.keywords, lang_result[1]>>

\* Python truthiness of a language value
Falsy(language) == language \in {None, ""}

\* normalize_articles, the shape of one canonical record
normalize_article(raw) ==
    [url |-> raw.url, text |-> raw.text, category |-> "general",
     keywords |-> <<>>, language |-> "en"]

-----------------------------------------------------------------------------
(* providers/newsapiorg: url_validator and normalize_articles *)

\* A URL, as the parts the validator looks at: the scheme, the kind of host
\* ("domain", "localhost", or "ip" for four dot-separated numbers a.b.c.d) and
\* the numbers; "none" is the absent URL (None)
Url(scheme, kind, a, b, c, d) ==
    [scheme |-> scheme, kind |-> kind, a |-> a, b |-> b, c |-> c, d |-> d]

NoUrl == Url(None, "none", 0, 0, 0, 0)

ExampleCom == Url("https", "domain", 0, 0, 0, 0)

Schemes == {"http", "https", "ftp"}

\* values of the first and of the second number of a host a.b.c.d: the borders
\* of the private ranges, of the octet range and of "\d{1,3}"
FirstOctets == {0, 9, 10, 11, 126, 127, 128, 171, 172, 173, 191, 192, 193, 255, 256, 999, 1000}

SecondOctets == {0, 15, 16, 17, 31, 32, 167, 168, 169, 255, 256}

LastOctets == {1, 256}

IpUrls == {Url(s, "ip", a, b, c, d) :
              s \in Schemes, a \in FirstOctets, b \in SecondOctets, c \in LastOctets, d \in LastOctets}

NamedUrls == {Url(s, k, 0, 0, 0, 0) : s \in Schemes, k \in {"domain", "localhost"}}

Octets(url) == {url.a, url.b, url.c, url.d}

\* the regular expression of url_validator: "https?://", then a domain name,
\* "localhost" or four numbers of one to three digits
pattern_match(url) ==
    /\ url.scheme \in {"http", "https"}
    /\ \/ url.kind \in {"domain", "localhost"}
       \/ url.kind = "ip" /\ \A octet \in Octets(url) : octet <= 999

\* variant: the 172.16.0.0/12 range written one too wide, "16 <= ip_parts[1] <= 32"
private_range_wide(url) ==
    \/ url.a = 10
    \/ url.a = 172 /\ 16 <= url.b /\ url.b <= 32
    \/ url.a = 192 /\ url.b = 168
    \/ url.a = 127

\* "Check for private IP ranges"
private_range(url) ==
    \/ url.a = 10
    \/ url.a = 172 /\ 16 <= url.b /\ url.b <= 31
    \/ url.a = 192 /\ url.b = 168
    \/ url.a = 127

\* validators.url_validator
url_validator(url) ==
    IF ~pattern_match(url) THEN FALSE
    ELSE IF url.kind = "localhost" THEN FALSE
    ELSE IF url.kind = "ip"
         THEN IF \E octet \in Octets(url) : octet < 0 \/ octet > 255 THEN FALSE
              ELSE ~private_range(url)
    ELSE TRUE

\* What "url_validator(url)" is in helpers.py. The name is bound by
\* "try: from django.core.validators import URLValidator as url_validator /
\* except ImportError: from .validators import url_validator". With Django
\* installed the call constructs a URLValidator object, which is truthy
\* whatever the URL; without Django it is validators.url_validator.
helpers_url_validator(url, django) == IF django THEN TRUE ELSE url_validator(url)

\* A raw article of the provider, as the parts normalize_articles looks at:
\*   source       "missing" (no such key), "null", "noname" (no name in it), "named"
\*   content      None, "" or a text
\*   publishedAt  None, "", "ok", "garbage" (parse_datetime returns None),
\*                "invalid" (well formed but no date: parse_datetime raises)
RawRecords ==
    [title : {None, "t"},
     url : {NoUrl, ExampleCom, Url("http", "localhost", 0, 0, 0, 0),
            Url("http", "ip", 127, 0, 1, 1), Url("http", "ip", 192, 168, 1, 1),
            Url("http", "ip", 10, 0, 1, 1), Url("ftp", "domain", 0, 0, 0, 0)},
     description : {None, "", "d"},
     content : {None, "", "c"},
     source : {"missing", "null", "noname", "named"},
     publishedAt : {None, "", "ok", "garbage", "invalid"}]

\* article.get("source", {}).get("name", None), where it does not raise
source_name(article) == IF article.source = "named" THEN "s" ELSE None

\* variant: critical_fields without the source
critical_fields_no_source(article, source) ==
    <<article.title = None, article.url = NoUrl, article.description = None,
      FALSE, article.publishedAt = None>>

\* "critical_fields = [title, url, description, source, published_raw]", as
\* the list of "v is None"
critical_fields(article, source) ==
    <<article.title = None, article.url = NoUrl, article.description = None,
      source = None, article.publishedAt = None>>

\* "if not content and description: content = description[:200].rstrip() + '...'"
content_of(article) ==
    IF article.content \in {None, ""} /\ article.description \notin {None, ""}
    THEN "d..."
    ELSE article.content

\* A content string, as a sequence of the tokens the regular expression
\* r'\s+\[\+\d+\s+chars\]' tells apart:
\*   "s"  one whitespace character
\*   "m"  a marker "[+<digits><whitespace>chars]", such as "[+1500 chars]"
\*   "x"  a bracket that is no marker, such as "[+ chars]" or "[1500 chars]"
\*   "w"  a word: other characters
Tokens == {"s", "m", "x", "w"}

Contents == SeqsUpTo(Tokens, MaxContent)

\* variant: the pattern anchored at the end of the string,
\* r'\s+\[\+\d+\s+chars\]$'
re_sub_end(content, i) ==
    LET n == Len(content)
        start == CHOOSE k \in 1..n : /\ \A j \in k..(n - 1) : content[j] = "s"
                                     /\ (k = 1 \/ content[k - 1] # "s")
    IN IF n >= 2 /\ content[n] = "m" /\ content[n - 1] = "s"
       THEN SubSeq(content, 1, start - 1)
       ELSE content

RECURSIVE re_sub(_, _)
\* re.sub(r'\s+\[\+\d+\s+chars\]', '', content), from position i on: the
\* scan goes from left to right; where a whitespace run that starts at i is
\* followed by a marker, the run and the marker are left out and the scan goes
\* on after the marker; anything else is copied
re_sub(content, i) ==
    IF i > Len(content) THEN <<>>
    ELSE LET after == CHOOSE k \in i..(Len(content) + 1) :
                          /\ \A j \in i..(k - 1) : content[j] = "s"
                          /\ (k = Len(content) + 1 \/ content[k] # "s")
         IN IF after > i /\ after <= Len(content) /\ content[after] = "m"
            THEN re_sub(content, after + 1)
            ELSE <<content[i]>> \o re_sub(content, i + 1)

\* "parse_datetime(published_raw) if published_raw else timezone.now()", with
\* the except clause: "parsed" (the timestamp of the string), "now"
\* (timezone.now()) or None. parse_datetime is Django's when Django is
\* installed, which returns None for a string that is not well formatted and
\* raises ValueError for a well formatted string that is no date; without
\* Django it is utils.parse_datetime (datetime.fromisoformat), which raises
\* ValueError for both.
published_date(published_raw, django) ==
    CASE published_raw = "" -> "now"
      [] published_raw = "ok" -> "parsed"
      [] published_raw = "invalid" -> "now"
      [] published_raw = "garbage" -> IF django THEN None ELSE "now"

\* validate_url_and_date
validate_url_and_date(url, date, django) ==
    /\ helpers_url_validator(url, django)
    /\ date \in {"parsed", "now"}       \* isinstance(published_date, timezone.datetime)

\* one turn of "for article in articles:" in normalize_articles:
\* [status, record], status "raised", "skipped" or "yielded"
normalize_raw(article, django) ==
    LET nothing == [title |-> None, url |-> NoUrl]
    IN IF article.source = "null"
       THEN [status |-> "raised", record |-> nothing]      \* None has no .get
       ELSE LET source == source_name(article)
                critical == critical_fields(article, source)
            IN IF \E i \in DOMAIN critical : critical[i]
               THEN [status |-> "skipped", record |-> nothing]
               ELSE IF content_of(article) = None
               THEN [status |-> "skipped", record |-> nothing]
               ELSE IF ~validate_url_and_date(article.url,
                                              published_date(article.publishedAt, django), django)
               THEN [status |-> "skipped", record |-> nothing]
               ELSE [status |-> "yielded",
                     record |-> [title |-> article.title, content |-> content_of(article),
                                 description |-> article.description, url |-> article.url,
                                 category |-> "general", source |-> source,
                                 published_date |-> published_date(article.publishedAt, django),
                                 language |-> "en"]]

RECURSIVE normalize_articles(_, _, _, _)
\* list(normalize_articles(articles)) from article i on: [records, raised],
\* the records yielded, and whether the generator ended by raising
normalize_articles(articles, django, i, records) ==
    IF i > Len(articles) THEN [records |-> records, raised |-> FALSE]
    ELSE LET turn == normalize_raw(articles[i], django)
         IN IF turn.status = "raised" THEN [records |-> records, raised |-> TRUE]
            ELSE normalize_articles(articles, django, i + 1,
                                    IF turn.status = "yielded"
                                    THEN Append(records, turn.record)
                                    ELSE records)

-----------------------------------------------------------------------------
(* The store *)

RECURSIVE Pick(_, _, _)
\* the subsequence of seq at the positions in keep, from position i on
Pick(seq, keep, i) ==
    IF i > Len(seq) THEN <<>>
    ELSE (IF i \in keep THEN <<seq[i]>> ELSE <<>>) \o Pick(seq, keep, i + 1)

Keys(seq, key) == {seq[i][key] : i \in DOMAIN seq}

\* {a[key]: a for a in seq}.values(): one record per key, at the place of the
\* key's first occurrence, holding the key's last record
unique_by(seq, key) ==
    LET firsts == Pick(seq, {i \in DOMAIN seq : \A j \in 1..(i - 1) : seq[j][key] # seq[i][key]}, 1)
        last(k) == seq[CHOOSE i \in DOMAIN seq :
                          /\ seq[i][key] = k
                          /\ \A j \in DOMAIN seq : j > i => seq[j][key] # k]
    IN [n \in DOMAIN firsts |-> last(firsts[n][key])]

\* Model.objects.filter(<key>__in=keys).values_list(<key>, flat=True), as a set
values_list(tbl, key, keys) == Keys(tbl, key) \cap keys

RECURSIVE insert_rows(_, _, _, _)
\* INSERT of objs, row by row, into a table with a unique index on key:
\* [tbl, conflict]. With ignore_conflicts a conflicting row is left out; without
\* it the first conflict ends the statement (IntegrityError).
insert_rows(tbl, objs, key, ignore_conflicts) ==
    IF objs = <<>> THEN [tbl |-> tbl, conflict |-> FALSE]
    ELSE IF Head(objs)[key] \in Keys(tbl, key)
         THEN IF ignore_conflicts
              THEN insert_rows(tbl, Tail(objs), key, ignore_conflicts)
              ELSE [tbl |-> tbl, conflict |-> TRUE]
         ELSE insert_rows(Append(tbl, Head(objs)), Tail(objs), key, ignore_conflicts)

\* variant: Model.objects.bulk_create(objs, update_conflicts=True, ...), which
\* overwrites the row of a key that is already there with the (last) object
\* of that key and inserts the others
bulk_create_update(tbl, objs, key) ==
    LET last(k) == objs[CHOOSE j \in DOMAIN objs :
                           /\ objs[j][key] = k
                           /\ \A n \in DOMAIN objs : n > j => objs[n][key] # k]
        updated == [i \in DOMAIN tbl |->
                       IF tbl[i][key] \in Keys(objs, key) THEN last(tbl[i][key]) ELSE tbl[i]]
    IN [tbl |-> updated \o Pick(unique_by(objs, key),
                                {j \in DOMAIN unique_by(objs, key) :
                                    unique_by(objs, key)[j][key] \notin Keys(tbl, key)}, 1),
        conflict |-> FALSE]

\* variant: Model.objects.bulk_create(objs), without ignore_conflicts
bulk_create_strict(tbl, objs, key) == insert_rows(tbl, objs, key, FALSE)

\* Model.objects.bulk_create(objs, ignore_conflicts=True) on a unique key
bulk_create(tbl, objs, key) == insert_rows(tbl, objs, key, TRUE)

\* the outcomes of one store operation: it works, or (when the run's store is
\* faulty) it raises
StoreOutcomes == IF cfg.db_faulty THEN {"ok", "error"} ELSE {"ok"}

-----------------------------------------------------------------------------
(* Control flow shared by the two commands *)

\* options['category'] of the thread of control p
Category(p) ==
    IF p # Main THEN options[p]
    ELSE IF cfg.category # None THEN cfg.category
    ELSE CategoryList[h_i]

\* the process is gone once handle has returned: the workers are daemon threads
Exited == pc[Main] \in {"h_done", "h_ret"}

\* where a thread of control ends: "Thread stopped" / the end of handle
End(p) == IF p = Main THEN "h_done" ELSE "stopped"

\* variant: time.sleep(duration), which runs its full time and returns nothing
time_sleep == FALSE

\* Command.interruptible_sleep: Event.wait(duration) returns the flag, True when
\* the flag was set before or during the wait and False when the time ran out
interruptible_sleep == shutdown_requested

\* shutdown_requested.is_set(), read by p
IsSet(p) ==
    /\ observed' = [observed EXCEPT ![p] = @ \/ shutdown_requested]

\* an interruptible_sleep of p ends; woken is what it returns
Slept(p, woken) ==
    /\ interrupted' = [interrupted EXCEPT ![p] = IF woken THEN "True" ELSE "False"]
    /\ observed' = [observed EXCEPT ![p] = @ \/ woken]

\* what a cycle has reported so far: the counts it writes to stdout and the
\* persistence errors it has logged
NoReport == [stored |-> 0, updated |-> 0, errors |-> 0]

\* process_fetch_cycle is over: its locals are dropped
DropLocals(p) ==
    /\ batch' = [batch EXCEPT ![p] = <<>>]
    /\ idx' = [idx EXCEPT ![p] = 0]
    /\ prepared' = [prepared EXCEPT ![p] = <<>>]
    /\ existing' = [existing EXCEPT ![p] = {}]
    /\ report' = [report EXCEPT ![p] = NoReport]

\* the caller of process_fetch_cycle is run_with_retries, except in the sources
\* command's single-cycle mode, where handle calls it
CalledByRetries == ~(cfg.cmd = "sources" /\ cfg.once)

\* variant: run_category_fetch without its "if options.get('once')" branch
NeverOnce == FALSE

\* run_with_retries is called on its own (once mode of the articles command)
\* rather than from a loop
RetriesOnce == cfg.cmd = "articles" /\ cfg.once

\* variant: the result is kept in an attribute of the command object, which
\* the threads share ("self.success = ..."), instead of a local of the caller
ReturnShared(p, value) ==
    /\ success' = [q \in Procs |-> value]
    /\ pc' = [pc EXCEPT ![p] = IF RetriesOnce THEN End(p) ELSE "w_after"]
    /\ UNCHANGED attempt

\* run_with_retries returns value to its caller
Return(p, value) ==
    /\ success' = [success EXCEPT ![p] = value]
    /\ pc' = [pc EXCEPT ![p] = IF RetriesOnce THEN End(p) ELSE "w_after"]
    /\ UNCHANGED attempt

\* variant: "if self.process_fetch_cycle(...): return True", which takes the
\* None a cycle returns for a failed attempt
CycleReturnsNone(p) ==
    /\ UNCHANGED nfails
    /\ IF CalledByRetries
       THEN IF attempt[p] < MAX_RETRIES - 1
            THEN /\ pc' = [pc EXCEPT ![p] = "r_postsleep"]
                 /\ UNCHANGED <<success, attempt>>
            ELSE Return(p, "False")
       ELSE /\ pc' = [pc EXCEPT ![p] = "so_next"]
            /\ UNCHANGED <<success, attempt>>

\* process_fetch_cycle returns normally
CycleReturns(p) ==
    /\ UNCHANGED nfails
    /\ IF CalledByRetries
       THEN Return(p, "True")
       ELSE /\ pc' = [pc EXCEPT ![p] = "so_next"]
            /\ UNCHANGED <<success, attempt>>

\* variant: "for attempt in range(MAX_RETRIES + 1)"
CycleRaisesOnceMore(p) ==
    /\ nfails' = [nfails EXCEPT ![p] = @ + 1]
    /\ IF CalledByRetries
       THEN IF attempt[p] < MAX_RETRIES
            THEN /\ pc' = [pc EXCEPT ![p] = "r_postsleep"]
                 /\ UNCHANGED <<success, attempt>>
            ELSE Return(p, "False")
       ELSE /\ pc' = [pc EXCEPT ![p] = "so_next"]
            /\ UNCHANGED <<success, attempt>>

\* process_fetch_cycle raises: the except clause of its caller
CycleRaises(p) ==
    /\ nfails' = [nfails EXCEPT ![p] = @ + 1]
    /\ IF CalledByRetries
       THEN IF attempt[p] < MAX_RETRIES - 1
            THEN /\ pc' = [pc EXCEPT ![p] = "r_postsleep"]
                 /\ UNCHANGED <<success, attempt>>
            ELSE Return(p, "False")
       ELSE /\ pc' = [pc EXCEPT ![p] = "so_next"]
            /\ UNCHANGED <<success, attempt>>

\* the history of the cycles that got an answer from the provider, kept when
\* the run asks for it: the rows in the table at the end of the cycle, whether
\* the cycle raised, and the persistence errors it logged
Finished(p, tbl, raised) ==
    runs' = IF cfg.track
            THEN Append(runs, [rows |-> Len(tbl), raised |-> raised,
                               errors |-> report[p].errors])
            ELSE runs

-----------------------------------------------------------------------------
(* Command.signal_handler *)

\* variant: a handler that flips the flag, clearing it on a second signal
signal_handler_toggle ==
    /\ cfg.signals
    /\ pc[Main] # "h_start"
    /\ ~Exited
    /\ shutdown_requested' = ~shutdown_requested
    /\ UNCHANGED <<options, fetched, model, model_lock, loads, caller, cfg, feed, arg,
                   result, pc, attempt, success, batch, idx, prepared, existing, report,
                   Article, Source, h_i, ncalls, nfails, interrupted, observed, runs>>

signal_handler ==
    /\ cfg.signals
    /\ pc[Main] # "h_start"          \* the handlers are installed by handle
    /\ ~Exited
    /\ shutdown_requested' = TRUE
    /\ UNCHANGED <<options, fetched, model, model_lock, loads, caller, cfg, feed, arg,
                   result, pc, attempt, success, batch, idx, prepared, existing, report,
                   Article, Source, h_i, ncalls, nfails, interrupted, observed, runs>>

-----------------------------------------------------------------------------
(* Command.run_with_retries *)

EnterRetries(p) ==
    /\ pc' = [pc EXCEPT ![p] = "r_check"]
    /\ attempt' = [attempt EXCEPT ![p] = 0]
    /\ success' = [success EXCEPT ![p] = "unset"]
    /\ ncalls' = [ncalls EXCEPT ![p] = 0]
    /\ nfails' = [nfails EXCEPT ![p] = 0]

\* variant: the delay before the attempt only from the second attempt on,
\* "if attempt > 0 and self.interruptible_sleep(TASK_SLEEP_INTERVAL): return False"
RetryCheckNoFirstDelay(p) ==
    /\ pc[p] = "r_check"
    /\ ~Exited
    /\ IsSet(p)
    /\ IF shutdown_requested
       THEN /\ Return(p, "False")
            /\ UNCHANGED ncalls
       ELSE IF attempt[p] = 0
       THEN /\ pc' = [pc EXCEPT ![p] = IF cfg.cmd = "articles" THEN "c_fetch" ELSE "s_fetch"]
            /\ ncalls' = [ncalls EXCEPT ![p] = @ + 1]
            /\ UNCHANGED <<success, attempt>>
       ELSE /\ pc' = [pc EXCEPT ![p] = "r_presleep"]
            /\ UNCHANGED <<success, attempt, ncalls>>
    /\ UNCHANGED <<options, fetched, model, model_lock, loads, caller, cfg, feed, arg,
                   result, shutdown_requested, batch, idx, prepared, existing, report,
                   Article, Source, h_i, nfails, interrupted, runs>>

\* "if self.shutdown_requested.is_set(): return False"
RetryCheck(p) ==
    /\ pc[p] = "r_check"
    /\ ~Exited
    /\ IsSet(p)
    /\ IF shutdown_requested
       THEN Return(p, "False")
       ELSE /\ pc' = [pc EXCEPT ![p] = "r_presleep"]
            /\ UNCHANGED <<success, attempt>>
    /\ UNCHANGED <<options, fetched, model, model_lock, loads, caller, cfg, feed, arg,
                   result, shutdown_requested, batch, idx, prepared, existing, report,
                   Article, Source, h_i, ncalls, nfails, interrupted, runs>>

\* variant: the result of the delay before the attempt is dropped,
\* "self.interruptible_sleep(TASK_SLEEP_INTERVAL)" without the "if ...: return False"
RetryPreSleepUnchecked(p) ==
    /\ pc[p] = "r_presleep"
    /\ ~Exited
    /\ Slept(p, interruptible_sleep)
    /\ pc' = [pc EXCEPT ![p] = IF cfg.cmd = "articles" THEN "c_fetch" ELSE "s_fetch"]
    /\ ncalls' = [ncalls EXCEPT ![p] = @ + 1]
    /\ UNCHANGED <<options, fetched, model, model_lock, loads, caller, cfg, feed, arg,
                   result, shutdown_requested, success, attempt, batch, idx, prepared,
                   existing, report, Article, Source, h_i, nfails, runs>>

\* the delay before the attempt, then the call of process_fetch_cycle
RetryPreSleep(p) ==
    /\ pc[p] = "r_presleep"
    /\ ~Exited
    /\ LET woken == interruptible_sleep
       IN /\ Slept(p, woken)
          /\ IF woken
             THEN /\ Return(p, "False")
                  /\ UNCHANGED ncalls
             ELSE /\ pc' = [pc EXCEPT ![p] = IF cfg.cmd = "articles" THEN "c_fetch" ELSE "s_fetch"]
                  /\ ncalls' = [ncalls EXCEPT ![p] = @ + 1]
                  /\ UNCHANGED <<success, attempt>>
    /\ UNCHANGED <<options, fetched, model, model_lock, loads, caller, cfg, feed, arg,
                   result, shutdown_requested, batch, idx, prepared, existing, report,
                   Article, Source, h_i, nfails, runs>>

\* variant: the result of the delay after a failed attempt is dropped
RetryPostSleepUnchecked(p) ==
    /\ pc[p] = "r_postsleep"
    /\ ~Exited
    /\ Slept(p, interruptible_sleep)
    /\ pc' = [pc EXCEPT ![p] = "r_check"]
    /\ attempt' = [attempt EXCEPT ![p] = @ + 1]
    /\ UNCHANGED <<options, fetched, model, model_lock, loads, caller, cfg, feed, arg,
                   result, shutdown_requested, success, batch, idx, prepared, existing,
                   report, Article, Source, h_i, ncalls, nfails, runs>>

\* the delay after a failed attempt that was not the last
RetryPostSleep(p) ==
    /\ pc[p] = "r_postsleep"
    /\ ~Exited
    /\ LET woken == interruptible_sleep
       IN /\ Slept(p, woken)
          /\ IF woken
             THEN Return(p, "False")
             ELSE /\ pc' = [pc EXCEPT ![p] = "r_check"]
                  /\ attempt' = [attempt EXCEPT ![p] = @ + 1]
                  /\ UNCHANGED success
    /\ UNCHANGED <<options, fetched, model, model_lock, loads, caller, cfg, feed, arg,
                   result, shutdown_requested, batch, idx, prepared, existing, report,
                   Article, Source, h_i, ncalls, nfails, runs>>

-----------------------------------------------------------------------------
(* Command.run_category_fetch, and the same loop in handle for one category *)

\* the sources command's loop in handle has no interval sleep
AfterBackoff(p) == IF cfg.cmd = "sources" /\ p = Main THEN "w_loop" ELSE "w_interval"

WorkerStart(p) ==
    /\ pc[p] = "w_start"
    /\ ~Exited
    /\ IF RetriesOnce
       THEN EnterRetries(p)
       ELSE /\ pc' = [pc EXCEPT ![p] = "w_loop"]
            /\ UNCHANGED <<attempt, success, ncalls, nfails>>
    /\ UNCHANGED <<options, fetched, model, model_lock, loads, caller, cfg, feed, arg,
                   result, shutdown_requested, batch, idx, prepared, existing, report,
                   Article, Source, h_i, interrupted, observed, runs>>

\* "while not self.shutdown_requested.is_set(): success = self.run_with_retries(...)"
WorkerLoop(p) ==
    /\ pc[p] = "w_loop"
    /\ ~Exited
    /\ IsSet(p)
    /\ IF shutdown_requested
       THEN /\ pc' = [pc EXCEPT ![p] = End(p)]
            /\ UNCHANGED <<attempt, success, ncalls, nfails>>
       ELSE EnterRetries(p)
    /\ UNCHANGED <<options, fetched, model, model_lock, loads, caller, cfg, feed, arg,
                   result, shutdown_requested, batch, idx, prepared, existing, report,
                   Article, Source, h_i, interrupted, runs>>

\* "if not success and not self.shutdown_requested.is_set():"
WorkerAfter(p) ==
    /\ pc[p] = "w_after"
    /\ ~Exited
    /\ IF success[p] = "False"
       THEN /\ IsSet(p)
            /\ pc' = [pc EXCEPT ![p] = IF shutdown_requested THEN AfterBackoff(p) ELSE "w_backoff"]
       ELSE /\ pc' = [pc EXCEPT ![p] = AfterBackoff(p)]
            /\ UNCHANGED observed
    /\ UNCHANGED <<options, fetched, model, model_lock, loads, caller, cfg, feed, arg,
                   result, shutdown_requested, attempt, success, batch, idx, prepared,
                   existing, report, Article, Source, h_i, ncalls, nfails, interrupted,
                   runs>>

\* variant: "self.interruptible_sleep(TASK_SLEEP_INTERVAL)" followed by an
\* unconditional "break": the lane gives up after a failed run
WorkerBackoffBreak(p) ==
    /\ pc[p] = "w_backoff"
    /\ ~Exited
    /\ Slept(p, interruptible_sleep)
    /\ pc' = [pc EXCEPT ![p] = End(p)]
    /\ UNCHANGED <<options, fetched, model, model_lock, loads, caller, cfg, feed, arg,
                   result, shutdown_requested, attempt, success, batch, idx, prepared,
                   existing, report, Article, Source, h_i, ncalls, nfails, runs>>

\* "if self.interruptible_sleep(TASK_SLEEP_INTERVAL): break"
WorkerBackoff(p) ==
    /\ pc[p] = "w_backoff"
    /\ ~Exited
    /\ LET woken == interruptible_sleep
       IN /\ Slept(p, woken)
          /\ pc' = [pc EXCEPT ![p] = IF woken THEN End(p) ELSE AfterBackoff(p)]
    /\ UNCHANGED <<options, fetched, model, model_lock, loads, caller, cfg, feed, arg,
                   result, shutdown_requested, attempt, success, batch, idx, prepared,
                   existing, report, Article, Source, h_i, ncalls, nfails, runs>>

\* "if self.interruptible_sleep(options.get('interval', 300)): break"
WorkerInterval(p) ==
    /\ pc[p] = "w_interval"
    /\ ~Exited
    /\ LET woken == interruptible_sleep
       IN /\ Slept(p, woken)
          /\ pc' = [pc EXCEPT ![p] = IF woken THEN End(p) ELSE "w_loop"]
    /\ UNCHANGED <<options, fetched, model, model_lock, loads, caller, cfg, feed, arg,
                   result, shutdown_requested, attempt, success, batch, idx, prepared,
                   existing, report, Article, Source, h_i, ncalls, nfails, runs>>

-----------------------------------------------------------------------------
(* fetch_provider_articles: Command.process_fetch_cycle *)

\* the history runs is kept for MaxRuns cycles
MayFetch == cfg.track => Len(runs) < MaxRuns

\* the record loop is over: persistence when something was prepared
AfterLoop(prepared_articles) == IF prepared_articles # <<>> THEN "c_lookup" ELSE "c_sleep"

\* "if not keywords and not language: continue"
Skipped(keywords, language) == keywords = <<>> /\ Falsy(language)

\* provider.get_top_headlines(...), and the early return on an empty answer
FetchArticles(p) ==
    /\ pc[p] = "c_fetch"
    /\ ~Exited
    /\ MayFetch
    /\ fetched' = [fetched EXCEPT ![p] = Category(p)]
    /\ \E response \in feed :
          IF response = ProviderError
          THEN /\ CycleRaises(p)
               /\ UNCHANGED <<batch, idx, runs>>
          ELSE /\ UNCHANGED nfails
               /\ batch' = [batch EXCEPT ![p] = response]
               /\ idx' = [idx EXCEPT ![p] = 1]
               /\ pc' = [pc EXCEPT ![p] = IF response = <<>> THEN "c_empty_sleep" ELSE "c_loop"]
               /\ UNCHANGED <<success, attempt, runs>>
    /\ UNCHANGED <<options, model, model_lock, loads, caller, cfg, feed, arg, result,
                   shutdown_requested, prepared, existing, report, Article, Source, h_i,
                   ncalls, interrupted, observed>>

\* one turn of "for article in normalize_articles(articles):"
EnrichArticle(p) ==
    /\ pc[p] = "c_loop"
    /\ ~Exited
    /\ IsSet(p)
    /\ IF shutdown_requested
       THEN /\ pc' = [pc EXCEPT ![p] = AfterLoop(prepared[p])]
            /\ UNCHANGED <<prepared, idx>>
       ELSE LET article == normalize_article(batch[p][idx[p]])
                kl == prepare_article_keywords_and_language(article.text)
                enriched == [article EXCEPT !.keywords = kl[1], !.language = kl[2],
                                            !.category = Category(p)]
                prepared_articles == IF Skipped(kl[1], kl[2])
                                     THEN prepared[p]
                                     ELSE Append(prepared[p], enriched)
            IN /\ prepared' = [prepared EXCEPT ![p] = prepared_articles]
               /\ idx' = [idx EXCEPT ![p] = @ + 1]
               /\ pc' = [pc EXCEPT ![p] = IF idx[p] = Len(batch[p])
                                          THEN AfterLoop(prepared_articles)
                                          ELSE "c_loop"]
    /\ UNCHANGED <<options, fetched, model, model_lock, loads, caller, cfg, feed, arg,
                   result, shutdown_requested, attempt, success, batch, existing, report,
                   Article, Source, h_i, ncalls, nfails, interrupted, runs>>

\* unique_articles = {a["url"]: a for a in prepared_articles}.values()
unique_articles(prepared_articles) == unique_by(prepared_articles, "url")

\* existing_urls = set(Article.objects.filter(url__in=urls).values_list("url", flat=True))
LookupArticles(p) ==
    /\ pc[p] = "c_lookup"
    /\ ~Exited
    /\ \E outcome \in StoreOutcomes :
          IF outcome = "error"
          THEN /\ CycleRaises(p)
               /\ DropLocals(p)
               /\ Finished(p, Article, TRUE)
          ELSE /\ UNCHANGED nfails
               /\ existing' = [existing EXCEPT ![p] =
                        values_list(Article, "url", Keys(unique_articles(prepared[p]), "url"))]
               /\ pc' = [pc EXCEPT ![p] = "c_bulk"]
               /\ UNCHANGED <<success, attempt, batch, idx, prepared, report, runs>>
    /\ UNCHANGED <<options, fetched, model, model_lock, loads, caller, cfg, feed, arg,
                   result, shutdown_requested, Article, Source, h_i, ncalls, interrupted,
                   observed>>

\* new_articles = [a for a in unique_articles if a["url"] not in existing_urls]
new_articles(unique, existing_urls) ==
    Pick(unique, {i \in DOMAIN unique : unique[i].url \notin existing_urls}, 1)

\* variant: every prepared record is inserted, with no existence filter, into
\* a table that has no unique index on url
BulkCreateArticlesUnfiltered(p) ==
    /\ pc[p] = "c_bulk"
    /\ ~Exited
    /\ Article' = Article \o unique_articles(prepared[p])
    /\ report' = [report EXCEPT ![p].stored = Len(unique_articles(prepared[p]))]
    /\ pc' = [pc EXCEPT ![p] = "c_sleep"]
    /\ UNCHANGED <<options, fetched, model, model_lock, loads, caller, cfg, feed, arg,
                   result, shutdown_requested, attempt, success, batch, idx, prepared,
                   existing, Source, h_i, ncalls, nfails, interrupted, observed, runs>>

\* "with transaction.atomic(): Article.objects.bulk_create(article_objs,
\* ignore_conflicts=True)", "stored_count = len(article_objs)"; an exception
\* (of the store, or the IntegrityError of a conflict) rolls the insert back
\* and is logged
BulkCreateArticles(p) ==
    /\ pc[p] = "c_bulk"
    /\ ~Exited
    /\ LET article_objs == new_articles(unique_articles(prepared[p]), existing[p])
           done == bulk_create(Article, article_objs, "url")
       IN \E outcome \in StoreOutcomes :
             IF outcome = "error" \/ done.conflict
             THEN /\ report' = [report EXCEPT ![p].errors = @ + 1]
                  /\ UNCHANGED Article
             ELSE /\ Article' = done.tbl
                  /\ report' = [report EXCEPT ![p].stored = Len(article_objs)]
    /\ pc' = [pc EXCEPT ![p] = "c_sleep"]
    /\ UNCHANGED <<options, fetched, model, model_lock, loads, caller, cfg, feed, arg,
                   result, shutdown_requested, attempt, success, batch, idx, prepared,
                   existing, Source, h_i, ncalls, nfails, interrupted, observed, runs>>

\* the interruptible_sleep that ends the cycle (after an empty answer, or after
\* persistence), and the cycle's return
CycleSleep(p) ==
    /\ pc[p] \in {"c_empty_sleep", "c_sleep", "s_empty_sleep", "s_sleep"}
    /\ ~Exited
    /\ Slept(p, interruptible_sleep)
    /\ CycleReturns(p)
    /\ DropLocals(p)
    /\ Finished(p, IF cfg.cmd = "articles" THEN Article ELSE Source, FALSE)
    /\ UNCHANGED <<options, fetched, model, model_lock, loads, caller, cfg, feed, arg,
                   result, shutdown_requested, Article, Source, h_i, ncalls>>

-----------------------------------------------------------------------------
(* fetch_provider_sources: Command.process_fetch_cycle *)

SourceFields == {"url", "category", "language", "country"}

\* the rows Source.objects.get(name=...) matches
Rows(tbl, name) == {i \in DOMAIN tbl : tbl[i].name = name}

\* "if getattr(obj, field) != p[field]: setattr(obj, field, p[field])"
Changed(obj, item) == \E field \in SourceFields : obj[field] # item[field]

Saved(obj, item) ==
    [field \in DOMAIN obj |->
        IF field \in SourceFields /\ obj[field] # item[field] THEN item[field] ELSE obj[field]]

RECURSIVE update_existing(_, _, _, _, _, _)
\* "for p in prepared: if p["name"] in existing_names: ...", from item i on:
\* [tbl, updated, raised]. The store raises at item failat (0: at none), and
\* get() raises when several rows match.
update_existing(tbl, items, existing_names, i, failat, updated) ==
    IF i > Len(items) THEN [tbl |-> tbl, updated |-> updated, raised |-> FALSE]
    ELSE IF items[i].name \notin existing_names
         THEN update_existing(tbl, items, existing_names, i + 1, failat, updated)
    ELSE IF i = failat \/ Cardinality(Rows(tbl, items[i].name)) > 1
         THEN [tbl |-> tbl, updated |-> updated, raised |-> TRUE]
    ELSE IF Rows(tbl, items[i].name) = {}
         THEN update_existing(tbl, items, existing_names, i + 1, failat, updated)
    ELSE LET r == CHOOSE n \in Rows(tbl, items[i].name) : TRUE
         IN IF Changed(tbl[r], items[i])
            THEN update_existing([tbl EXCEPT ![r] = Saved(tbl[r], items[i])], items,
                                 existing_names, i + 1, failat, updated + 1)
            ELSE update_existing(tbl, items, existing_names, i + 1, failat, updated)

\* new_items = [Source(**p) for p in prepared if p["name"] not in existing_names]
new_items(items, existing_names) ==
    Pick(items, {i \in DOMAIN items : items[i].name \notin existing_names}, 1)

\* the transaction of one turn: bulk_create of the new items, then the update
\* loop: [tbl, created, updated, raised]. fault: 0 none, -1 bulk_create raises,
\* i > 0 the store raises at item i of the update loop. A raise (of the store,
\* or the IntegrityError of a conflict) rolls the transaction back, leaves the
\* counters as they were when it was raised, and is logged.
persist_sources(tbl, items, existing_names, fault) ==
    LET new == new_items(items, existing_names)
        done == bulk_create(tbl, new, "name")
    IN IF new # <<>> /\ (fault = -1 \/ done.conflict)
       THEN [tbl |-> tbl, created |-> 0, updated |-> 0, raised |-> TRUE]
       ELSE LET upd == update_existing(done.tbl, items, existing_names, 1, fault, 0)
            IN [tbl |-> IF upd.raised THEN tbl ELSE upd.tbl,
                created |-> Len(new), updated |-> upd.updated, raised |-> upd.raised]

\* where the store may raise inside the transaction
StoreFaults(items, existing_names) ==
    IF cfg.db_faulty
    THEN {0, -1} \cup {i \in DOMAIN items : items[i].name \in existing_names}
    ELSE {0}

\* provider.get_sources(...), and the early return on an empty answer
FetchSources(p) ==
    /\ pc[p] = "s_fetch"
    /\ ~Exited
    /\ MayFetch
    /\ fetched' = [fetched EXCEPT ![p] = Category(p)]
    /\ \E response \in feed :
          IF response = ProviderError
          THEN /\ CycleRaises(p)
               /\ UNCHANGED <<batch, idx, runs>>
          ELSE /\ UNCHANGED nfails
               /\ batch' = [batch EXCEPT ![p] = response]
               /\ idx' = [idx EXCEPT ![p] = 1]
               /\ pc' = [pc EXCEPT ![p] = IF response = <<>> THEN "s_empty_sleep" ELSE "s_lookup"]
               /\ UNCHANGED <<success, attempt, runs>>
    /\ UNCHANGED <<options, model, model_lock, loads, caller, cfg, feed, arg, result,
                   shutdown_requested, prepared, existing, report, Article, Source, h_i,
                   ncalls, interrupted, observed>>

\* one turn of "for _source in sources:", up to the lookup of the names:
\* prepared.append({...}), existing_names = set(Source.objects.filter(name__in=names)...)
LookupSources(p) ==
    /\ pc[p] = "s_lookup"
    /\ ~Exited
    /\ LET items == Append(prepared[p], batch[p][idx[p]])
       IN \E outcome \in StoreOutcomes :
             IF outcome = "error"
             THEN /\ CycleRaises(p)
                  /\ DropLocals(p)
                  /\ Finished(p, Source, TRUE)
             ELSE /\ UNCHANGED nfails
                  /\ prepared' = [prepared EXCEPT ![p] = items]
                  /\ existing' = [existing EXCEPT ![p] =
                           values_list(Source, "name", Keys(items, "name"))]
                  /\ pc' = [pc EXCEPT ![p] = "s_tx"]
                  /\ UNCHANGED <<success, attempt, batch, idx, report, runs>>
    /\ UNCHANGED <<options, fetched, model, model_lock, loads, caller, cfg, feed, arg,
                   result, shutdown_requested, Article, Source, h_i, ncalls, interrupted,
                   observed>>

\* the rest of the turn: the transaction and the summary line
PersistSources(p) ==
    /\ pc[p] = "s_tx"
    /\ ~Exited
    /\ \E fault \in StoreFaults(prepared[p], existing[p]) :
          LET done == persist_sources(Source, prepared[p], existing[p], fault)
          IN /\ Source' = done.tbl
             /\ report' = [report EXCEPT ![p] =
                             [stored |-> @.stored + done.created,
                              updated |-> @.updated + done.updated,
                              errors |-> @.errors + (IF done.raised THEN 1 ELSE 0)]]
    /\ idx' = [idx EXCEPT ![p] = @ + 1]
    /\ pc' = [pc EXCEPT ![p] = IF idx[p] = Len(batch[p]) THEN "s_sleep" ELSE "s_lookup"]
    /\ UNCHANGED <<options, fetched, model, model_lock, loads, caller, cfg, feed, arg,
                   result, shutdown_requested, attempt, success, batch, prepared, existing,
                   Article, h_i, ncalls, nfails, interrupted, observed, runs>>

-----------------------------------------------------------------------------
(* Command.handle *)

Alive(c) == pc[c] \notin {"unstarted", "stopped"}

\* where handle goes once the API key is there: it returns on a provider
\* without the categories attribute when it needs the categories
\* ("except AttributeError"), and chooses the mode otherwise
HandleMode ==
    IF cfg.category = None /\ ~cfg.categories THEN "h_ret"
    ELSE IF cfg.cmd = "sources" /\ cfg.once
         THEN (IF cfg.category = None THEN "so_loop" ELSE "s_fetch")
    ELSE IF cfg.category = None THEN "h_spawn"
    ELSE "w_start"

\* variant: handle without its "if not api_key: ... return"
HandleStartNoKeyCheck ==
    /\ pc[Main] = "h_start"
    /\ pc' = [pc EXCEPT ![Main] = HandleMode]
    /\ ncalls' = [ncalls EXCEPT ![Main] = IF HandleMode = "s_fetch" THEN 1 ELSE @]
    /\ UNCHANGED <<options, fetched, model, model_lock, loads, caller, cfg, feed, arg,
                   result, shutdown_requested, attempt, success, batch, idx, prepared,
                   existing, report, Article, Source, h_i, nfails, interrupted, observed,
                   runs>>

\* setup_signal_handlers, the API key check, and the choice of the mode
HandleStart ==
    /\ pc[Main] = "h_start"
    /\ pc' = [pc EXCEPT ![Main] = IF ~cfg.api_key THEN "h_ret" ELSE HandleMode]
    /\ ncalls' = [ncalls EXCEPT ![Main] =
                     IF cfg.api_key /\ HandleMode = "s_fetch" THEN 1 ELSE @]
    /\ UNCHANGED <<options, fetched, model, model_lock, loads, caller, cfg, feed, arg,
                   result, shutdown_requested, attempt, success, batch, idx, prepared,
                   existing, report, Article, Source, h_i, nfails, interrupted, observed,
                   runs>>

\* variant: every thread is started on the first category
HandleSpawnFirst ==
    /\ pc[Main] = "h_spawn"
    /\ pc' = [pc EXCEPT ![CategoryList[1]] = "w_start",
                        ![Main] = IF h_i = Len(CategoryList) THEN "h_poll" ELSE "h_spawn"]
    /\ options' = [options EXCEPT ![CategoryList[1]] = CategoryList[1]]
    /\ h_i' = IF h_i = Len(CategoryList) THEN 1 ELSE h_i + 1
    /\ UNCHANGED <<fetched, model, model_lock, loads, caller, cfg, feed, arg, result,
                   shutdown_requested, attempt, success, batch, idx, prepared, existing,
                   report, Article, Source, ncalls, nfails, interrupted, observed, runs>>

\* variant: no copy, "category_options = options": the threads share one dict
HandleSpawnShared ==
    /\ pc[Main] = "h_spawn"
    /\ pc' = [pc EXCEPT ![CategoryList[h_i]] = "w_start",
                        ![Main] = IF h_i = Len(CategoryList) THEN "h_poll" ELSE "h_spawn"]
    /\ options' = [p \in Procs |-> IF p # Main /\ pc'[p] # "unstarted"
                                   THEN CategoryList[h_i] ELSE options[p]]
    /\ h_i' = IF h_i = Len(CategoryList) THEN 1 ELSE h_i + 1
    /\ UNCHANGED <<fetched, model, model_lock, loads, caller, cfg, feed, arg, result,
                   shutdown_requested, attempt, success, batch, idx, prepared, existing,
                   report, Article, Source, ncalls, nfails, interrupted, observed, runs>>

\* "for category in supported_categories: category_options = options.copy();
\* category_options['category'] = category; ... thread.start()"
HandleSpawn ==
    /\ pc[Main] = "h_spawn"
    /\ pc' = [pc EXCEPT ![CategoryList[h_i]] = "w_start",
                        ![Main] = IF h_i = Len(CategoryList) THEN "h_poll" ELSE "h_spawn"]
    /\ options' = [options EXCEPT ![CategoryList[h_i]] = CategoryList[h_i]]
    /\ h_i' = IF h_i = Len(CategoryList) THEN 1 ELSE h_i + 1
    /\ UNCHANGED <<fetched, model, model_lock, loads, caller, cfg, feed, arg, result,
                   shutdown_requested, attempt, success, batch, idx, prepared, existing,
                   report, Article, Source, ncalls, nfails, interrupted, observed, runs>>

\* variant: handle sets the flag itself when it finds no thread alive,
\* "if not alive_threads: self.shutdown_requested.set(); break"
HandlePollSets ==
    /\ pc[Main] = "h_poll"
    /\ IsSet(Main)
    /\ pc' = [pc EXCEPT ![Main] =
                 IF shutdown_requested \/ \A c \in Categories : ~Alive(c)
                 THEN "h_join" ELSE "h_poll_sleep"]
    /\ shutdown_requested' = (shutdown_requested \/ \A c \in Categories : ~Alive(c))
    /\ UNCHANGED <<options, fetched, model, model_lock, loads, caller, cfg, feed, arg,
                   result, attempt, success, batch, idx, prepared, existing, report,
                   Article, Source, h_i, ncalls, nfails, interrupted, runs>>

\* "while not self.shutdown_requested.is_set():" with the liveness check
HandlePoll ==
    /\ pc[Main] = "h_poll"
    /\ IsSet(Main)
    /\ pc' = [pc EXCEPT ![Main] =
                 IF shutdown_requested \/ \A c \in Categories : ~Alive(c)
                 THEN "h_join" ELSE "h_poll_sleep"]
    /\ UNCHANGED <<options, fetched, model, model_lock, loads, caller, cfg, feed, arg,
                   result, shutdown_requested, attempt, success, batch, idx, prepared,
                   existing, report, Article, Source, h_i, ncalls, nfails, interrupted,
                   runs>>

\* "self.interruptible_sleep(1)"
HandlePollSleep ==
    /\ pc[Main] = "h_poll_sleep"
    /\ Slept(Main, interruptible_sleep)
    /\ pc' = [pc EXCEPT ![Main] = "h_poll"]
    /\ UNCHANGED <<options, fetched, model, model_lock, loads, caller, cfg, feed, arg,
                   result, shutdown_requested, attempt, success, batch, idx, prepared,
                   existing, report, Article, Source, h_i, ncalls, nfails, runs>>

\* "for thread in threads: thread.join(timeout=5)"
Joined ==
    /\ pc' = [pc EXCEPT ![Main] = IF h_i = Len(CategoryList) THEN "h_done" ELSE "h_join"]
    /\ h_i' = IF h_i = Len(CategoryList) THEN h_i ELSE h_i + 1
    /\ UNCHANGED <<options, fetched, model, model_lock, loads, caller, cfg, feed, arg,
                   result, shutdown_requested, attempt, success, batch, idx, prepared,
                   existing, report, Article, Source, ncalls, nfails, interrupted, observed,
                   runs>>

\* the join returns because the thread has ended
HandleJoin ==
    /\ pc[Main] = "h_join"
    /\ ~Alive(CategoryList[h_i])
    /\ Joined

\* the join returns because its timeout has run out on a live thread
HandleJoinTimeout ==
    /\ pc[Main] = "h_join"
    /\ Alive(CategoryList[h_i])
    /\ Joined

\* sources, once mode: "for category in supported_categories:
\* if self.shutdown_requested.is_set(): break"
SourcesOnceLoop ==
    /\ pc[Main] = "so_loop"
    /\ IsSet(Main)
    /\ pc' = [pc EXCEPT ![Main] = IF shutdown_requested THEN "h_ret" ELSE "s_fetch"]
    /\ ncalls' = [ncalls EXCEPT ![Main] = IF shutdown_requested THEN @ ELSE 1]
    /\ nfails' = [nfails EXCEPT ![Main] = IF shutdown_requested THEN @ ELSE 0]
    /\ UNCHANGED <<options, fetched, model, model_lock, loads, caller, cfg, feed, arg,
                   result, shutdown_requested, attempt, success, batch, idx, prepared,
                   existing, report, Article, Source, h_i, interrupted, runs>>

\* sources, once mode: process_fetch_cycle is back (its exception is caught)
SourcesOnceNext ==
    /\ pc[Main] = "so_next"
    /\ IF cfg.category = None /\ h_i < Len(CategoryList)
       THEN /\ h_i' = h_i + 1
            /\ pc' = [pc EXCEPT ![Main] = "so_loop"]
       ELSE /\ pc' = [pc EXCEPT ![Main] = "h_ret"]
            /\ UNCHANGED h_i
    /\ UNCHANGED <<options, fetched, model, model_lock, loads, caller, cfg, feed, arg,
                   result, shutdown_requested, attempt, success, batch, idx, prepared,
                   existing, report, Article, Source, ncalls, nfails, interrupted, observed,
                   runs>>

-----------------------------------------------------------------------------
(* Specifications *)

Commands == {"articles", "sources"}

Batches(cmd) == IF cmd = "articles" THEN ArticleBatches ELSE SourceBatches

\* a provider that fails, answers nothing, or answers one record
SmallFeed(cmd) ==
    {ProviderError, <<>>} \cup {CHOOSE b \in Batches(cmd) : Len(b) = 1}

InitState ==
    /\ shutdown_requested = FALSE
    /\ pc = [p \in Procs |-> IF p = Main THEN "h_start" ELSE "unstarted"]
    /\ attempt = [p \in Procs |-> 0]
    /\ success = [p \in Procs |-> "unset"]
    /\ batch = [p \in Procs |-> <<>>]
    /\ idx = [p \in Procs |-> 0]
    /\ prepared = [p \in Procs |-> <<>>]
    /\ existing = [p \in Procs |-> {}]
    /\ report = [p \in Procs |-> NoReport]
    /\ Article = <<>>
    /\ Source = <<>>
    /\ h_i = 1
    /\ ncalls = [p \in Procs |-> 0]
    /\ nfails = [p \in Procs |-> 0]
    /\ interrupted = [p \in Procs |-> "unset"]
    /\ observed = [p \in Procs |-> FALSE]
    /\ runs = <<>>
    /\ model = None
    /\ model_lock = None
    /\ loads = <<>>
    /\ options = [p \in Procs |-> None]
    /\ fetched = [p \in Procs |-> None]
    /\ caller = [p \in Procs |-> [at |-> "idle", got |-> None]]

\* no function of the provider package is being called on its own
NoCall ==
    /\ arg = [fn |-> None]
    /\ result = [done |-> FALSE]

Step(p) ==
    \/ RetryCheck(p)
    \/ RetryPreSleep(p)
    \/ RetryPostSleep(p)
    \/ WorkerStart(p)
    \/ WorkerLoop(p)
    \/ WorkerAfter(p)
    \/ WorkerBackoff(p)
    \/ WorkerInterval(p)
    \/ FetchArticles(p)
    \/ EnrichArticle(p)
    \/ LookupArticles(p)
    \/ BulkCreateArticles(p)
    \/ FetchSources(p)
    \/ LookupSources(p)
    \/ PersistSources(p)
    \/ CycleSleep(p)

Handle ==
    \/ HandleStart
    \/ HandleSpawn
    \/ HandlePoll
    \/ HandlePollSleep
    \/ HandleJoin
    \/ SourcesOnceLoop
    \/ SourcesOnceNext

Next ==
    \/ signal_handler
    \/ Handle
    \/ HandleJoinTimeout
    \/ \E p \in Procs : Step(p)

Init ==
    /\ InitState
    /\ NoCall
    /\ \E cmd \in Commands :
          /\ cfg \in [cmd : {cmd}, once : BOOLEAN, category : {None, CategoryList[1]},
                       api_key : BOOLEAN, categories : BOOLEAN, db_faulty : {FALSE},
                       signals : {TRUE}, track : {FALSE}]
          \* a provider without categories is tried where handle asks for them
          /\ cfg.categories \/ (cfg.api_key /\ cfg.category = None)
          /\ feed = SmallFeed(cmd)

Spec == Init /\ [][Next]_vars

\* Every thread that can run does run; a sleep that is not interrupted times
\* out. Nothing makes a signal arrive, nor a join give up on a live thread.
Fairness ==
    /\ WF_vars(Handle)
    /\ \A p \in Procs : WF_vars(Step(p))

FairSpec == Init /\ [][Next]_vars /\ Fairness

\* The runs of Init with a provider that, where several lanes run at a time, is
\* up for the whole run (it answers nothing or one record) or down for the
\* whole run (every call fails); a lane run on its own gets every answer
InitStop ==
    /\ InitState
    /\ NoCall
    /\ \E cmd \in Commands :
          /\ cfg \in [cmd : {cmd}, once : BOOLEAN, category : {None, CategoryList[1]},
                       api_key : {TRUE}, categories : {TRUE}, db_faulty : {FALSE},
                       signals : {TRUE}, track : {FALSE}]
          /\ feed \in {SmallFeed(cmd) \ {ProviderError}, {ProviderError}}
                       \cup IF cfg.category = None THEN {} ELSE {SmallFeed(cmd)}

FairStop == InitStop /\ [][Next]_vars /\ Fairness

\* the answers of the provider to the lane that is run on its own
Answers(cmd) == IF cmd = "articles" THEN ArticleBatches \cup EmptyUrlBatches ELSE SourceBatches

\* One lane on the main thread, run after run on the same provider answer,
\* with no signal and a store that works
InitCycle ==
    /\ InitState
    /\ NoCall
    /\ \E cmd \in Commands :
          /\ cfg = [cmd |-> cmd, once |-> FALSE, category |-> CategoryList[1],
                    api_key |-> TRUE, categories |-> TRUE, db_faulty |-> FALSE,
                    signals |-> FALSE, track |-> TRUE]
          /\ \E answer \in Answers(cmd) : feed \in {{answer}, {answer, ProviderError}}

NextCycle ==
    \/ HandleStart
    \/ \E p \in Procs : Step(p)

SpecCycle == InitCycle /\ [][NextCycle]_vars

\* One lane on the main thread, with no signal and a provider that always
\* answers (the same batch), on a store whose every operation may fail
InitFaulty ==
    /\ InitState
    /\ NoCall
    /\ \E cmd \in Commands :
          /\ cfg = [cmd |-> cmd, once |-> FALSE, category |-> CategoryList[1],
                    api_key |-> TRUE, categories |-> TRUE, db_faulty |-> TRUE,
                    signals |-> FALSE, track |-> FALSE]
          /\ \E answer \in Batches(cmd) : feed = {answer}

SpecFaulty == InitFaulty /\ [][NextCycle]_vars

\* Continuous mode with no signal, so that the shutdown flag is never set: one
\* lane on the main thread or one worker per category, on a store that works
InitQuiet ==
    /\ InitState
    /\ NoCall
    /\ \E cmd \in Commands :
          /\ cfg \in [cmd : {cmd}, once : {FALSE}, category : {None, CategoryList[1]},
                       api_key : {TRUE}, categories : {TRUE}, db_faulty : {FALSE},
                       signals : {FALSE}, track : {FALSE}]
          /\ feed = SmallFeed(cmd)

\* with the flag unset handle stays in its poll loop
NextQuiet ==
    \/ HandleStart
    \/ HandleSpawn
    \/ HandlePoll
    \/ HandlePollSleep
    \/ \E p \in Procs : Step(p)

SpecQuiet == InitQuiet /\ [][NextQuiet]_vars

\* every thread that can run does run; a sleep times out
FairQuiet == SpecQuiet /\ WF_vars(NextQuiet) /\ \A p \in Procs : WF_vars(Step(p))

\* no command is run: a function of the provider package is called on its own
NoCommand ==
    /\ InitState
    /\ cfg = [cmd |-> None, once |-> FALSE, category |-> None, api_key |-> FALSE,
              categories |-> FALSE, db_faulty |-> FALSE, signals |-> FALSE, track |-> FALSE]
    /\ feed = {}

\* url_validator(url) is called and returns
CallUrlValidator ==
    /\ arg.fn = "url_validator"
    /\ ~result.done
    /\ result' = [done |-> TRUE, value |-> url_validator(arg.url)]
    /\ UNCHANGED <<options, fetched, model, model_lock, loads, caller, cfg, feed, arg,
                   shutdown_requested, pc, attempt, success, batch, idx, prepared, existing,
                   report, Article, Source, h_i, ncalls, nfails, interrupted, observed,
                   runs>>

InitValidator ==
    /\ NoCommand
    /\ arg \in [fn : {"url_validator"}, url : IpUrls \cup NamedUrls]
    /\ result = [done |-> FALSE]

SpecValidator == InitValidator /\ [][CallUrlValidator]_vars

\* "content = re.sub(...)" of normalize_articles is evaluated
CallReSub ==
    /\ arg.fn = "re_sub"
    /\ ~result.done
    /\ result' = [done |-> TRUE, value |-> re_sub(arg.content, 1)]
    /\ UNCHANGED <<options, fetched, model, model_lock, loads, caller, cfg, feed, arg,
                   shutdown_requested, pc, attempt, success, batch, idx, prepared, existing,
                   report, Article, Source, h_i, ncalls, nfails, interrupted, observed,
                   runs>>

InitReSub ==
    /\ NoCommand
    /\ arg \in [fn : {"re_sub"}, content : Contents]
    /\ result = [done |-> FALSE]

SpecReSub == InitReSub /\ [][CallReSub]_vars

\* list(normalize_articles(articles)) is evaluated
CallNormalizeArticles ==
    /\ arg.fn = "normalize_articles"
    /\ ~result.done
    /\ result' = [done |-> TRUE,
                  value |-> normalize_articles(arg.articles, arg.django, 1, <<>>)]
    /\ UNCHANGED <<options, fetched, model, model_lock, loads, caller, cfg, feed, arg,
                   shutdown_requested, pc, attempt, success, batch, idx, prepared, existing,
                   report, Article, Source, h_i, ncalls, nfails, interrupted, observed,
                   runs>>

\* raw articles with a valid URL, a description and a content, for the
\* answers of two articles
SampleRecords ==
    {article \in RawRecords :
        /\ article.url = ExampleCom
        /\ article.description = "d"
        /\ article.content = "c"
        /\ article.publishedAt \in {"ok", "garbage"}}

\* the provider's answers: one raw article, or two of the sample articles;
\* django: whether Django is installed
InitNormalize ==
    /\ NoCommand
    /\ arg \in [fn : {"normalize_articles"}, django : BOOLEAN,
                articles : {<<article>> : article \in RawRecords}
                           \cup {<<a, b>> : a \in SampleRecords, b \in SampleRecords}]
    /\ result = [done |-> FALSE]

SpecNormalize == InitNormalize /\ [][CallNormalizeArticles]_vars

-----------------------------------------------------------------------------
(* get_model of the language detection service, called by several threads *)

\* what get_model leaves alone
LoaderFrame ==
    UNCHANGED <<options, fetched, cfg, feed, arg, result, shutdown_requested, pc, attempt,
                success, batch, idx, prepared, existing, report, Article, Source, h_i,
                ncalls, nfails, interrupted, observed, runs>>

At(p, at) == [caller EXCEPT ![p].at = at]

\* a thread calls get_model()
GetModelCall(p) ==
    /\ caller[p].at = "idle"
    /\ caller' = At(p, "check")
    /\ UNCHANGED <<model, model_lock, loads>>
    /\ LoaderFrame

\* "if _model is None:", without the lock
GetModelCheck(p) ==
    /\ caller[p].at = "check"
    /\ caller' = At(p, IF model = None THEN "acquire" ELSE "return")
    /\ UNCHANGED <<model, model_lock, loads>>
    /\ LoaderFrame

\* "with _model_lock:" is entered: blocks while another thread holds the lock
GetModelAcquire(p) ==
    /\ caller[p].at = "acquire"
    /\ model_lock = None
    /\ model_lock' = p
    /\ caller' = At(p, "recheck")
    /\ UNCHANGED <<model, loads>>
    /\ LoaderFrame

\* variant: no second test under the lock
GetModelLoadAnyway(p) ==
    /\ caller[p].at = "recheck"
    /\ caller' = At(p, "load")
    /\ UNCHANGED <<model, model_lock, loads>>
    /\ LoaderFrame

\* "if _model is None:", holding the lock
GetModelRecheck(p) ==
    /\ caller[p].at = "recheck"
    /\ caller' = At(p, IF model = None THEN "load" ELSE "exit")
    /\ UNCHANGED <<model, model_lock, loads>>
    /\ LoaderFrame

\* "_model = fasttext.load_model(model_path)": every successful call makes a new
\* instance, named by its position in loads; a failing call is logged and
\* raised again, and the assignment does not happen
LoadModel(p) ==
    /\ caller[p].at = "load"
    /\ \/ /\ loads' = Append(loads, [by |-> p, out |-> ToString(Len(loads) + 1)])
          /\ model' = ToString(Len(loads) + 1)
          /\ caller' = At(p, "exit")
       \/ /\ Cardinality({i \in DOMAIN loads : loads[i].out = "error"}) < MaxLoadFails
          /\ loads' = Append(loads, [by |-> p, out |-> "error"])
          /\ model' = model
          /\ caller' = At(p, "exit_raise")
    /\ UNCHANGED model_lock
    /\ LoaderFrame

\* the with block is left, normally or by the exception: the lock is released
GetModelExit(p) ==
    /\ caller[p].at \in {"exit", "exit_raise"}
    /\ model_lock' = None
    /\ caller' = IF caller[p].at = "exit"
                 THEN At(p, "return")
                 ELSE [caller EXCEPT ![p] = [at |-> "idle", got |-> "error"]]
    /\ UNCHANGED <<model, loads>>
    /\ LoaderFrame

\* "return _model"
GetModelReturn(p) ==
    /\ caller[p].at = "return"
    /\ caller' = [caller EXCEPT ![p] = [at |-> "idle", got |-> model]]
    /\ UNCHANGED <<model, model_lock, loads>>
    /\ LoaderFrame

get_model(p) ==
    \/ GetModelCall(p)
    \/ GetModelCheck(p)
    \/ GetModelAcquire(p)
    \/ GetModelRecheck(p)
    \/ LoadModel(p)
    \/ GetModelExit(p)
    \/ GetModelReturn(p)

InitLoader == NoCommand /\ NoCall

SpecLoader == InitLoader /\ [][\E p \in Procs : get_model(p)]_vars

-----------------------------------------------------------------------------
(* Properties *)

SleepPcs == {"r_presleep", "r_postsleep", "w_backoff", "w_interval", "h_poll_sleep",
             "c_empty_sleep", "c_sleep", "s_empty_sleep", "s_sleep"}

CycleSleepPcs == {"c_empty_sleep", "c_sleep", "s_empty_sleep", "s_sleep"}

FetchPcs == {"c_fetch", "s_fetch"}

\* the extractor finds no keyword in the text, or raises
NoKeywords(text) == extract_keywords(text).raised \/ extract_keywords(text).keywords = <<>>

\* C1: a record whose text yields no keyword (or whose extraction raises) is
\* never among the records handed to the bulk insert and is never stored.
C1_KeywordlessNeverStored ==
    cfg.cmd = "articles" =>
        /\ \A i \in DOMAIN Article : ~NoKeywords(Article[i].text)
        /\ \A p \in Procs : \A i \in DOMAIN prepared[p] : ~NoKeywords(prepared[p][i].text)

\* the table and the natural key of the run's command
Table == IF cfg.cmd = "articles" THEN Article ELSE Source

NaturalKey == IF cfg.cmd = "articles" THEN "url" ELSE "name"

NoDuplicates(tbl, key) == \A i, j \in DOMAIN tbl : tbl[i][key] = tbl[j][key] => i = j

\* C2: whatever the interleaving of the lanes' existence checks and bulk
\* inserts, the store never holds two articles with the same URL nor two
\* sources with the same name, and no lane's persistence step fails (raises and
\* is rolled back) because of the conflict.
C2_NoDuplicateNoConflictFailure ==
    /\ NoDuplicates(Article, "url")
    /\ NoDuplicates(Source, "name")
    /\ \A p \in Procs : report[p].errors = 0

\* two lanes have both found the key absent and both have run their bulk
\* insert of it: both report one stored record, the table holds one
C2_Witness ==
    \E p, q \in Procs :
        /\ p # q
        /\ pc[p] \in {"c_sleep", "s_sleep"} /\ pc[q] \in {"c_sleep", "s_sleep"}
        /\ report[p].stored = 1 /\ report[q].stored = 1
        /\ Len(Table) = 1

\* C3: when the same batch is persisted twice in sequence with no other
\* writer, the number of stored entities after the second run equals the number
\* after the first, and the second run raises no error.
C3_SecondRunIdempotent ==
    Len(runs) >= 2 =>
        /\ runs[2].rows = runs[1].rows
        /\ ~runs[2].raised
        /\ runs[2].errors = 0

\* the second run of a batch that stored something is over
C3_Witness ==
    /\ Len(runs) = 2
    /\ runs[1].rows >= 1
    /\ Len(Table) >= 1

\* the first cycle of p, on the empty store, has persisted a batch of two
\* records with the same natural key
SameKeyBatchPersisted(p) ==
    /\ runs = <<>>
    /\ pc[p] \in {"c_sleep", "s_sleep"}
    /\ Len(batch[p]) = 2
    /\ batch[p][1][NaturalKey] = batch[p][2][NaturalKey]

\* the row of tbl holds the values of the provider's record
HoldsRecord(row, record) == \A field \in DOMAIN record : row[field] = record[field]

\* C4: after a batch with two records of the same natural key has been
\* persisted, exactly one entity with that key is stored, it holds the values of
\* the record that came last, and the cycle has counted exactly one insert or
\* update for the key.
C4_SameKeyOneEntityOneCount ==
    \A p \in Procs :
        SameKeyBatchPersisted(p) =>
            LET k == batch[p][2][NaturalKey]
                rows == {i \in DOMAIN Table : Table[i][NaturalKey] = k}
            IN /\ Cardinality(rows) = 1
               /\ \A i \in rows : HoldsRecord(Table[i], batch[p][2])
               /\ report[p].stored + report[p].updated = 1

\* C5: an invocation of run_with_retries whose every call of the fetch cycle
\* has failed, and during which the shutdown flag was not set, has called the
\* fetch cycle exactly MAX_RETRIES times when it returns, and returns False; no
\* invocation calls the fetch cycle more than MAX_RETRIES times.
C5_RetryExhaustion ==
    \A p \in Procs :
        /\ ncalls[p] <= MAX_RETRIES
        /\ (success[p] # "unset" /\ ~shutdown_requested /\ nfails[p] = ncalls[p])
               => (ncalls[p] = MAX_RETRIES /\ success[p] = "False")

\* run_with_retries has returned False after MAX_RETRIES failed calls, with
\* no shutdown
C5_Witness ==
    \E p \in Procs :
        /\ success[p] = "False"
        /\ ~shutdown_requested
        /\ ncalls[p] = MAX_RETRIES /\ nfails[p] = MAX_RETRIES
        /\ interrupted[p] = "False"

\* p is in one of the waits of run_with_retries
InRetryWait(p) == pc[p] \in {"r_presleep", "r_postsleep"}

\* run_with_retries of p has returned to its caller
Returned(p) == pc[p] \in {"w_after", "stopped", "h_done"}

\* C6: when the shutdown flag is set during a wait of run_with_retries (the
\* delay before an attempt or the delay after a failure), the wait ends with
\* the invocation returning False, and no further call of the fetch cycle is
\* made, even when attempts remain.
C6_ShutdownDuringRetryWait ==
    [][\A p \in Procs :
          (InRetryWait(p) /\ shutdown_requested /\ pc'[p] # pc[p]) =>
              /\ Returned(p)'
              /\ success'[p] = "False"
              /\ ncalls'[p] = ncalls[p]]_vars

\* an invocation was cut short in a wait: it returned False out of an
\* interrupted sleep with attempts left
C6_Witness ==
    \E p \in Procs :
        /\ pc[p] = "w_after"
        /\ success[p] = "False"
        /\ interrupted[p] = "True"
        /\ ncalls[p] < MAX_RETRIES
        /\ nfails[p] = ncalls[p]

\* the lane p has left its loop: "Thread stopped", or the end of handle
Stopped(p) == pc[p] = End(p)

\* every category worker has been started and has stopped
WorkersStopped == \A c \in Categories : Stopped(c)

\* C7: once the shutdown flag is set, eventually every category worker has
\* stopped, or handle has returned (with its lane stopped when it runs the lane
\* itself; on workers whose step in flight did not end in time otherwise); no
\* step of a lane that has read the flag as set, in that step or before it,
\* starts a fetch cycle; and a stopped lane stays stopped.
C7_ShutdownStopsWorkers ==
    /\ shutdown_requested ~> (WorkersStopped \/ Exited)
    /\ [][\A p \in Procs : (observed'[p] /\ pc[p] \notin FetchPcs) => pc'[p] \notin FetchPcs]_vars
    /\ [][\A p \in Procs : Stopped(p) => Stopped(p)']_vars

\* shutdown was requested while the workers ran, every worker has observed it
\* and stopped, and handle has joined them and returned
C7_Witness ==
    /\ shutdown_requested
    /\ pc[Main] = "h_done"
    /\ \A c \in Categories : pc[c] = "stopped" /\ observed[c]
    /\ \E c \in Categories : interrupted[c] = "True"

\* C8: an interruptible sleep that ends while the shutdown flag is set (set
\* before the sleep began or while it was in progress) reports "interrupted":
\* with the flag set no sleep runs to its timeout. This holds for the sleeps of
\* the retry runner, the worker loop, the fetch cycle and the orchestrator poll.
C8_SleepInterruptedByFlag ==
    [][\A p \in Procs :
          (pc[p] \in SleepPcs /\ shutdown_requested /\ pc'[p] # pc[p]) =>
              interrupted'[p] = "True"]_vars

\* the orchestrator's poll sleep and a lane's sleep have both been interrupted
C8_Witness ==
    /\ shutdown_requested
    /\ interrupted[Main] = "True"
    /\ \E c \in Categories : interrupted[c] = "True"

\* C9: in once mode a lane never waits in a sleep after the persistence step of
\* its cycle: it stops at once.
C9_OnceModeNoSleepAfterCycle ==
    cfg.once => \A p \in Procs : ~(pc[p] \in {"c_sleep", "s_sleep"} /\ ~shutdown_requested)

\* a lane is inside the worker's "while" loop
InLoop(p) == pc[p] \in {"w_loop", "w_after", "w_backoff", "w_interval"}

\* C10: in once mode, no lane enters the worker's loop and no lane calls the
\* fetch cycle more than MAX_RETRIES times; if the shutdown flag is never set,
\* handle eventually returns, and when it returns no worker is alive.
C10_OnceModeTerminates ==
    /\ [](cfg.once => \A p \in Procs : ~InLoop(p) /\ ncalls[p] <= MAX_RETRIES)
    /\ [](cfg.once /\ Exited /\ ~shutdown_requested => \A c \in Categories : ~Alive(c))
    /\ (cfg.once => <>(shutdown_requested \/ Exited))

\* once mode, all categories, no signal: a worker has used up its attempts,
\* every worker has stopped and handle has returned
C10_Witness ==
    /\ cfg.once
    /\ ~shutdown_requested
    /\ pc[Main] = "h_done"
    /\ \A c \in Categories : pc[c] = "stopped"
    /\ \E c \in Categories : ncalls[c] = MAX_RETRIES

\* the positions inside process_fetch_cycle
CyclePcs == {"c_fetch", "c_empty_sleep", "c_loop", "c_lookup", "c_bulk", "c_sleep",
             "s_fetch", "s_empty_sleep", "s_lookup", "s_tx", "s_sleep"}

\* where a thread of control is before it runs as a lane
NotStarted(p) == pc[p] = (IF p = Main THEN "h_start" ELSE "unstarted")

\* C11: a lane has at most one fetch cycle in progress: a cycle of a lane
\* starts only from a position outside the lane's previous cycle, with that
\* cycle's locals gone, and a lane's thread is started only once, whatever the
\* other lanes do.
C11_OneCyclePerLane ==
    [][\A p \in Procs :
          /\ (pc'[p] \in FetchPcs /\ pc'[p] # pc[p]) =>
                 (pc[p] \notin CyclePcs /\ batch[p] = <<>> /\ prepared[p] = <<>>)
          /\ (pc'[p] = "w_start" /\ pc[p] # "w_start") => NotStarted(p)]_vars

\* a lane is in its second cycle of an invocation while another lane is in a
\* cycle too
C11_Witness ==
    \E p, q \in Categories :
        /\ p # q
        /\ pc[p] \in CyclePcs /\ pc[q] \in CyclePcs
        /\ ncalls[p] = 2 /\ nfails[p] = 1

\* handle has written "Fetch task stopped gracefully" / "Sources task stopped
\* gracefully"
MessageEmitted == pc[Main] = "h_done"

\* C12: the final "stopped gracefully" message is emitted only when every
\* worker has stopped: in no state has it been emitted while a worker is still
\* inside a fetch cycle.
C12_MessageOnlyWhenAllStopped ==
    MessageEmitted => \A c \in Categories : pc[c] \notin CyclePcs

\* the time handle has spent in its joins when it returns, in seconds, at the
\* least: a worker that is alive when handle returns was alive during its
\* join, which ran to its timeout
JoinWait == JOIN_TIMEOUT * Cardinality({c \in Categories : Alive(c)})

\* C13: once shutdown is requested, handle returns after waiting at most the
\* join timeout in total for its workers, whatever the number of lanes.
C13_JoinWaitBounded ==
    (shutdown_requested /\ MessageEmitted) => JoinWait <= JOIN_TIMEOUT

\* C14: the shutdown flag starts unset and, once set, stays set: no step of the
\* signal handler, of handle or of a worker clears it.
C14_FlagMonotonic ==
    /\ ~shutdown_requested
    /\ [][shutdown_requested => shutdown_requested']_vars

\* the flag was set, and since then a worker has read it and stopped and
\* handle has read it
C14_Witness ==
    /\ shutdown_requested
    /\ observed[Main]
    /\ \E c \in Categories : observed[c] /\ Stopped(c)

\* one of title, url, description, source name and publishedAt is absent
MissingCritical(article) ==
    \/ article.title = None
    \/ article.url = NoUrl
    \/ article.description = None
    \/ article.source # "named"
    \/ article.publishedAt = None

\* C15: normalize_articles emits no canonical record for a raw record in which
\* title, url, description, source name or publishedAt is absent: it emits at
\* most as many records as there are raw records with all five present.
C15_CriticalFieldRejection ==
    (arg.fn = "normalize_articles" /\ result.done) =>
        Len(result.value.records) <=
            Cardinality({i \in DOMAIN arg.articles : ~MissingCritical(arg.articles[i])})

\* a raw article that lacks only the name of its source, and is otherwise
\* complete with a valid URL and date, has been normalized away
C15_Witness ==
    /\ arg.fn = "normalize_articles" /\ result.done
    /\ arg.articles[1] = [title |-> "t", url |-> ExampleCom, description |-> "d",
                          content |-> "c", source |-> "noname", publishedAt |-> "ok"]
    /\ result.value.records = <<>>
    /\ ~result.value.raised

\* C16: normalize_articles never emits a record whose URL the strict validator
\* rejects (host localhost, a loopback or private address, or a scheme other
\* than http and https).
C16_NoRejectedUrlEmitted ==
    (arg.fn = "normalize_articles" /\ result.done) =>
        \A j \in DOMAIN result.value.records : url_validator(result.value.records[j].url)

\* the host is a dotted quad with every octet in 0..255
DottedQuad(url) == url.kind = "ip" /\ \A octet \in Octets(url) : 0 <= octet /\ octet <= 255

\* 10.0.0.0/8, 172.16.0.0/12, 192.168.0.0/16 and 127.0.0.0/8
PrivateOrLoopback(url) ==
    \/ url.a = 10
    \/ url.a = 172 /\ url.b \in 16..31
    \/ url.a = 192 /\ url.b = 168
    \/ url.a = 127

\* C17: for an http or https URL whose host is a dotted quad with every octet
\* in 0..255, url_validator returns False exactly when the address is in
\* 10/8, 172.16/12, 192.168/16 or 127/8; it returns False for the host
\* localhost and for an octet above 255, and True for https://example.com/a.
C17_ValidatorPrivateRanges ==
    (arg.fn = "url_validator" /\ result.done) =>
        LET url == arg.url
        IN /\ (url.scheme \in {"http", "https"} /\ DottedQuad(url)) =>
                  (result.value = FALSE <=> PrivateOrLoopback(url))
           /\ url.kind = "localhost" => result.value = FALSE
           /\ (url.kind = "ip" /\ \E octet \in Octets(url) : octet > 255) => result.value = FALSE
           /\ url = ExampleCom => result.value = TRUE

\* the validator has accepted 172.32.1.1, the first address above 172.16/12
C17_Witness ==
    /\ arg.fn = "url_validator" /\ result.done
    /\ arg.url = Url("http", "ip", 172, 32, 1, 1)
    /\ result.value = TRUE

\* the persistence step of p's cycle is over
Persisted(p) == pc[p] \in {"c_sleep", "s_sleep"}

\* the natural keys of p's batch that are in the store
Committed(p) == Keys(batch[p], NaturalKey) \cap Keys(Table, NaturalKey)

\* C18: the reconciliation of one batch is one transaction: on a store that
\* starts empty and receives the same batch cycle after cycle, when the
\* persistence step of a cycle is over, whatever failed on the way, either every
\* key of the batch is committed or none is.
C18_BatchAllOrNothing ==
    \A p \in Procs :
        Persisted(p) => (Committed(p) = {} \/ Committed(p) = Keys(batch[p], NaturalKey))

\* C19: a failure of the store at any step of the persistence (the lookup of
\* the existing keys, the bulk insert, the update of a row) is caught inside
\* the fetch cycle: with a provider that always answers, no call of
\* process_fetch_cycle raises and run_with_retries never returns False.
C19_StoreFailureCaughtInCycle ==
    \A p \in Procs : nfails[p] = 0 /\ success[p] # "False"

RECURSIVE StoredReported(_)
\* the stored/created counts of the cycles in progress in the lanes S, added up
StoredReported(S) ==
    IF S = {} THEN 0
    ELSE LET p == CHOOSE q \in S : TRUE
         IN report[p].stored + StoredReported(S \ {p})

\* C20: the counts a cycle reports are the entities it committed: the rows the
\* cycles in progress report as stored are rows of the table, each inserted by
\* one of them, so together they are no more than the rows the table holds.
C20_CountsAreCommitted ==
    StoredReported(Procs) <= Len(Table)

\* a raw article with every critical field present, a content or a
\* description to take it from, and a URL the validator accepts
Complete(article) ==
    /\ ~MissingCritical(article)
    /\ content_of(article) # None
    /\ url_validator(article.url)

\* a raw article with nothing wrong: complete, with a publishedAt that is a
\* timestamp
WellFormed(article) == Complete(article) /\ article.publishedAt = "ok"

\* C21: a malformed record affects only itself: for a batch that holds a
\* well-formed record, normalization raises no error to the cycle, and every
\* well-formed record of the batch is emitted (there are at least as many
\* emitted records as well-formed raw records).
C21_MalformedAffectsOnlyItself ==
    (arg.fn = "normalize_articles" /\ result.done) =>
        LET good == {i \in DOMAIN arg.articles : WellFormed(arg.articles[i])}
        IN good # {} =>
               /\ ~result.value.raised
               /\ Len(result.value.records) >= Cardinality(good)

\* C22: in continuous mode with the shutdown flag never set, a lane whose
\* run_with_retries has returned False does not terminate: it eventually
\* starts a new fetch attempt (however many failed runs came before), and its
\* wait after the failed run never ends with the lane stopping.
C22_FailedRunRestarts ==
    /\ \A p \in Procs :
           (~cfg.once /\ pc[p] = "w_after" /\ success[p] = "False") ~> pc[p] \in FetchPcs
    /\ [][\A p \in Procs :
             (pc[p] = "w_backoff" /\ ~shutdown_requested) => ~Stopped(p)']_vars

\* a lane whose run has used up its attempts has waited out its delays and is
\* back at the head of its loop, where its next run starts
C22_Witness ==
    \E p \in Procs :
        /\ ~cfg.once /\ ~shutdown_requested
        /\ pc[p] = "w_loop"
        /\ success[p] = "False"
        /\ nfails[p] = MAX_RETRIES
        /\ interrupted[p] = "False"

\* C23: with the lanes running concurrently and the flag never set, a fetch
\* cycle of a lane that fails changes nothing of the other lanes (their
\* position, their results and counts, the store); a lane that has started a
\* cycle completes it, and when its persistence step is over its records are
\* in the store, whatever the other lanes do; and handle never stops and the
\* shutdown flag is never set.
C23_FailingLaneHarmsNoSibling ==
    /\ [](pc[Main] \notin {"h_join", "h_done", "h_ret"} /\ ~shutdown_requested)
    /\ [](\A q \in Procs : Persisted(q) =>
              Keys(prepared[q], NaturalKey) \subseteq Keys(Table, NaturalKey))
    /\ [][\A p \in Procs :
             nfails'[p] = nfails[p] + 1 =>
                 /\ \A q \in Procs \ {p} :
                        /\ pc'[q] = pc[q] /\ success'[q] = success[q]
                        /\ report'[q] = report[q] /\ prepared'[q] = prepared[q]
                 /\ UNCHANGED <<Article, Source, shutdown_requested>>]_vars
    /\ \A q \in Categories : pc[q] \in FetchPcs ~> pc[q] \notin CyclePcs

\* a lane has failed in every cycle of its run and has given the run up, the
\* other lane has stored its record in the meantime, and handle is still
\* polling
C23_Witness ==
    \E p, q \in Categories :
        /\ p # q
        /\ nfails[p] = MAX_RETRIES /\ success[p] = "False"
        /\ Persisted(q) /\ report[q].stored = 1 /\ nfails[q] = 0
        /\ pc[Main] \in {"h_poll", "h_poll_sleep"}
        /\ ~shutdown_requested

\* the run lacks what handle needs: the API key, or the categories of the
\* provider when no category was asked for
ConfigurationError == ~cfg.api_key \/ (cfg.category = None /\ ~cfg.categories)

\* C24: when the API key is missing, or the provider has no categories while
\* no category was requested, handle returns without starting a worker or a
\* fetch cycle, without an attempt of the retry runner, and with the store as
\* it was.
C24_ConfigurationErrorIsFatal ==
    (cfg.cmd \in Commands /\ ConfigurationError) =>
        /\ pc[Main] \in {"h_start", "h_ret"}
        /\ \A c \in Categories : pc[c] = "unstarted"
        /\ \A p \in Procs : ncalls[p] = 0 /\ success[p] = "unset"
        /\ Article = <<>> /\ Source = <<>>

\* handle has returned on a provider that has no categories
C24_Witness ==
    /\ cfg.cmd \in Commands
    /\ cfg.api_key /\ cfg.category = None /\ ~cfg.categories
    /\ pc[Main] = "h_ret"

\* C25: a record with keywords whose language detection fails or is below the
\* confidence threshold is kept with the fallback language "en", and no record
\* handed to persistence, and no stored article, has an absent language.
C25_LanguageFallback ==
    cfg.cmd = "articles" =>
        /\ \A p \in Procs : \A i \in DOMAIN prepared[p] :
               /\ prepared[p][i].language # None
               /\ (prepared[p][i].keywords # <<>>
                      /\ detect_language(prepared[p][i].text)[1] = None)
                     => prepared[p][i].language = "en"
        /\ \A i \in DOMAIN Article : Article[i].language # None

\* C26: a raw record that has every critical field and a valid URL, but a
\* publishedAt string that cannot be parsed as a timestamp, is still emitted by
\* normalize_articles, with the current time as its published_date.
C26_UnparseableDateFallsBackToNow ==
    (arg.fn = "normalize_articles" /\ result.done /\ Len(arg.articles) = 1) =>
        LET article == arg.articles[1]
        IN (Complete(article) /\ article.publishedAt \in {"garbage", "invalid"}) =>
               /\ Len(result.value.records) = 1
               /\ result.value.records[1].published_date = "now"

\* C27: when no category is requested, every category's fetch cycles run in a
\* worker thread of their own, for both commands and in both modes: handle
\* runs no fetch cycle itself, and once it has been through its spawn loop
\* every category's worker has been started.
C27_OneWorkerPerCategory ==
    (cfg.cmd \in Commands /\ cfg.category = None) =>
        /\ pc[Main] \notin CyclePcs
        /\ pc[Main] \in {"h_poll", "h_poll_sleep", "h_join", "h_done"} =>
               \A c \in Categories : pc[c] # "unstarted"

\* C28: every entity a fetch cycle hands to the store has a non-empty natural
\* key: no article with an empty URL and no source with an empty name is ever
\* inserted.
C28_NaturalKeyNonEmpty ==
    /\ \A i \in DOMAIN Article : Article[i].url \notin {None, ""}
    /\ \A i \in DOMAIN Source : Source[i].name \notin {None, ""}

\* the positions of the markers that follow a whitespace, and of the
\* whitespace runs before them
Stripped(content) ==
    {i \in DOMAIN content :
        \/ content[i] = "m" /\ i > 1 /\ content[i - 1] = "s"
        \/ \E m \in (i + 1)..Len(content) :
               content[m] = "m" /\ \A j \in i..(m - 1) : content[j] = "s"}

\* C29 as stated: a content that ends with a whitespace run followed by a
\* marker is normalized to what comes before the run, unchanged; a content
\* with no marker after a whitespace is returned unchanged.
C29_Original ==
    (arg.fn = "re_sub" /\ result.done) =>
        LET content == arg.content
            n == Len(content)
            \* where the whitespace run before the last token starts
            start == CHOOSE k \in 1..(n - 1) : /\ \A j \in k..(n - 1) : content[j] = "s"
                                               /\ (k = 1 \/ content[k - 1] # "s")
        IN /\ (n >= 2 /\ content[n] = "m" /\ content[n - 1] = "s") =>
                  result.value = SubSeq(content, 1, start - 1)
           /\ Stripped(content) = {} => result.value = content

\* C29, amended: normalization removes every marker that follows a whitespace
\* run, wherever it is in the content, together with that run, and leaves
\* every other character in place; a content with no such marker is returned
\* unchanged.
C29_MarkerStripped ==
    (arg.fn = "re_sub" /\ result.done) =>
        /\ result.value = Pick(arg.content, DOMAIN arg.content \ Stripped(arg.content), 1)
        /\ Stripped(arg.content) = {} => result.value = arg.content

\* a content with a marker in the middle and one at the end, each after
\* whitespace, has been normalized: both are gone
C29_Witness ==
    /\ arg.fn = "re_sub" /\ result.done
    /\ arg.content = <<"w", "s", "m", "s", "m">>
    /\ result.value = <<"w">>

\* C30: in continuous mode, in every lane of both commands, after a run of
\* the retry runner that succeeded the worker goes into the sleep of the
\* configured interval, and it is from that sleep that it comes back to the
\* head of its loop to invoke the retry runner again.
C30_IntervalSleepAfterSuccess ==
    [][\A p \in Procs :
          (~cfg.once /\ pc[p] = "w_after" /\ success[p] = "True" /\ pc'[p] # pc[p]) =>
              pc'[p] = "w_interval"]_vars

\* C31: within run_with_retries every call of the fetch cycle, the first
\* included, is made straight out of the delay before the attempt, which has
\* run its full time without being interrupted: no cycle is started from
\* anywhere else, nor out of a delay that the flag has cut short.
C31_DelayBeforeEveryAttempt ==
    [][\A p \in Procs :
          (CalledByRetries /\ pc'[p] \in FetchPcs /\ pc[p] \notin FetchPcs) =>
              /\ pc[p] = "r_presleep"
              /\ interrupted'[p] = "False"
              /\ ncalls'[p] = ncalls[p] + 1]_vars

\* a lane is in the second fetch cycle of a run, after a first that failed,
\* and the last delay it waited was not interrupted
C31_Witness ==
    \E p \in Procs :
        /\ CalledByRetries
        /\ pc[p] \in FetchPcs
        /\ attempt[p] = 1 /\ ncalls[p] = 2 /\ nfails[p] = 1
        /\ interrupted[p] = "False"

\* C32: a fetch cycle that has retrieved a batch runs to completion whatever
\* happens to the shutdown flag: when its persistence step is over, on a store
\* that works, every record of the batch that enrichment does not skip is in
\* the store.
C32_CycleRunsToCompletion ==
    \A p \in Procs :
        (cfg.cmd = "articles" /\ ~cfg.db_faulty /\ pc[p] = "c_sleep") =>
            \A i \in DOMAIN batch[p] :
                LET kl == prepare_article_keywords_and_language(batch[p][i].text)
                IN ~Skipped(kl[1], kl[2]) => batch[p][i].url \in Keys(Article, "url")

\* C33: the articles pipeline is insert-only: no step of any lane changes or
\* removes a stored article, whatever the freshly fetched record for its URL
\* holds; the table only grows at its end.
C33_ArticlesInsertOnly ==
    [][/\ Len(Article') >= Len(Article)
       /\ \A i \in DOMAIN Article : Article'[i] = Article[i]]_vars

\* a lane has been through its persistence step with a record whose URL is
\* stored with another lane's category: the stored article is as it was
C33_Witness ==
    \E p \in Procs :
        /\ pc[p] = "c_sleep"
        /\ Len(prepared[p]) = 1
        /\ \E i \in DOMAIN Article :
               /\ Article[i].url = prepared[p][1].url
               /\ Article[i].category # prepared[p][1].category

\* C34: in the sources pipeline a stored entity is written, and counted as
\* updated, only when one of url, category, language, country of the fetched
\* source differs from the stored value: a cycle that runs against the
\* response the previous cycle has persisted writes nothing and reports zero
\* updates.
C34_UnchangedResponseNoWrite ==
    /\ []((cfg.cmd = "sources" /\ Len(runs) >= 1) => \A p \in Procs : report[p].updated = 0)
    /\ [][(cfg.cmd = "sources" /\ Len(runs) >= 1) => Source' = Source]_vars

\* C35: the shutdown flag is written only by the signal handler: a step that
\* changes the flag is no step of a worker, of the retry runner, of a fetch
\* cycle or of handle, as it moves no thread and touches nothing of what they
\* work on; those only read the flag.
C35_OnlySignalHandlerWrites ==
    [][shutdown_requested' # shutdown_requested =>
          /\ cfg.signals
          /\ UNCHANGED <<pc, attempt, success, batch, idx, prepared, existing, report,
                         Article, Source, h_i, ncalls, nfails, interrupted, observed, runs>>]_vars

\* the signal handler has set the flag while a worker is in the middle of a
\* fetch cycle and handle is asleep in its poll; neither has read it yet
C35_Witness ==
    /\ shutdown_requested
    /\ pc[Main] = "h_poll_sleep" /\ ~observed[Main]
    /\ \E c \in Categories : pc[c] \in CyclePcs /\ ~observed[c]

\* C36: however many threads call get_model at once, fasttext.load_model
\* succeeds at most once and every caller that was handed a model was handed
\* that one instance; a load that fails is raised to the thread that made it
\* and to no other, releases the lock and leaves _model unset, so that the
\* next caller to hold the lock loads again.
C36_LoadedOnceSharedInstance ==
    LET ok == {i \in DOMAIN loads : loads[i].out # "error"}
    IN /\ Cardinality(ok) <= 1
       /\ (model = None) <=> (ok = {})
       /\ \A i \in ok : model = loads[i].out
       /\ \A p \in Procs :
             /\ caller[p].got \notin {None, "error"} => caller[p].got = model
             /\ caller[p].got = "error" =>
                    \E i \in DOMAIN loads : loads[i].by = p /\ loads[i].out = "error"
             /\ caller[p].at \in {"idle", "check", "acquire", "return"} => model_lock # p
             /\ (caller[p].at = "load" /\ model = None) => model_lock = p

\* a first load failed in one thread, a later call by another thread loaded,
\* and all three threads hold the same instance
C36_Witness ==
    /\ Len(loads) = 2
    /\ loads[1].out = "error" /\ loads[2].out = "2" /\ loads[1].by # loads[2].by
    /\ \A p \in Procs : caller[p].at = "idle" /\ caller[p].got = "2"

\* C37: a lane keeps the category it was started with and no lane changes
\* another's: the dict of the thread started for category c holds c from the
\* start on and is never written again, every provider call the lane makes
\* carries c, and every article the lane inserts is stored with category c.
C37_LaneKeepsCategory ==
    /\ [](\A c \in Categories :
             /\ pc[c] # "unstarted" => options[c] = c
             /\ fetched[c] \in {None, c})
    /\ [][\A p \in Procs :
             /\ options[p] # None => options'[p] = options[p]
             /\ (pc[p] = "c_bulk" /\ pc'[p] # "c_bulk") =>
                   \A i \in DOMAIN Article' :
                      i > Len(Article) =>
                         Article'[i].category = IF p = Main THEN cfg.category ELSE p]_vars

\* both lanes have fetched under their own category; the second lane has
\* inserted the article under its category while the first holds the same
\* article prepared under its own
C37_Witness ==
    /\ \A c \in Categories : fetched[c] = c
    /\ Len(Article) = 1 /\ Article[1].category = CategoryList[2]
    /\ Len(prepared[CategoryList[1]]) = 1
    /\ prepared[CategoryList[1]][1].category = CategoryList[1]
    /\ prepared[CategoryList[1]][1].url = Article[1].url

====
